---- MODULE Spec2Model ----
(***************************************************************************)
(* Model of src/methods/methods.py: stand-alone helper functions for       *)
(* colour conversion, directory listing, data-frame sampling and           *)
(* descriptive statistics.  The functions share no state; a caller invokes *)
(* one of them with some arguments (Call_* actions) and takes the result   *)
(* (Return).  numpy floating-point values are modelled as exact rationals  *)
(* <<n, d>> in lowest terms with d > 0, extended IEEE-style with           *)
(* <<0, 0>> (NaN), <<1, 0>> (+inf) and <<-1, 0>> (-inf).                   *)
(***************************************************************************)
EXTENDS Integers, Sequences, FiniteSets, TLC

VARIABLES pc, op, args, ret

vars == <<pc, op, args, ret>>

(* --------------------------- Python values ----------------------------- *)

None == [type |-> "NoneType"]
PyInt(n) == [type |-> "int", val |-> n]
List(s) == [type |-> "list", val |-> s]
Series(s) == [type |-> "Series", val |-> s]
Ok(v) == [status |-> "ok", value |-> v]
Raise(e) == [status |-> "raise", value |-> e]

\* the sequence s with every element evaluated (TLC evaluates [i \in S |-> e] lazily)
Array(s) == SelectSeq(s, LAMBDA e : TRUE)

SeqsUpTo(S, n) == UNION {[1..k -> S] : k \in 0..n}

(* ------------------------------ bounds --------------------------------- *)

\* longest numeric collection passed to the statistics functions
MaxLen == 3
\* largest explicit bin count passed to distribution_pdf / distribution_cdf
MaxBins == 3
\* most rows of a data frame
MaxRows == 3

\* values the numeric collections are drawn from
DataVals == {1, 2, 4}
\* the collections of the documented scenarios
ExampleData == {<<1, 1, 2, 3, 3, 3>>, <<10, 20, 30>>, <<5, 5, 5>>, <<1, 2, 3, 4>>}
NumData == SeqsUpTo(DataVals, MaxLen) \cup ExampleData
\* target bounds passed to normlize
BoundVals == {-1, 0, 1, 3}


\* sum of a sequence of integers
RECURSIVE SumRange(_, _, _)
SumRange(s, i, j) ==
    IF i > j THEN 0
    ELSE IF i = j THEN s[i]
    ELSE LET m == (i + j) \div 2
         IN  SumRange(s, i, m) + SumRange(s, m + 1, j)

SumSeq(s) == SumRange(s, 1, Len(s))

(* ------------------ numpy float arithmetic (IEEE 754) ------------------ *)

Abs(x) == IF x < 0 THEN -x ELSE x
Sign(x) == IF x > 0 THEN 1 ELSE IF x < 0 THEN -1 ELSE 0

RECURSIVE Gcd(_, _)
Gcd(a, b) == IF b = 0 THEN a ELSE Gcd(b, a % b)

Frac(n, d) ==
    IF d = 0 THEN <<Sign(n), 0>>
    ELSE LET g == Gcd(Abs(n), Abs(d))
         IN  <<(Sign(d) * n) \div g, Abs(d) \div g>>

NaN == <<0, 0>>
Float(i) == <<i, 1>>
IsNaN(a) == a = NaN
IsFinite(a) == a[2] # 0

FMul(a, b) == Frac(a[1] * b[1], a[2] * b[2])

FAdd(a, b) ==
    IF IsNaN(a) \/ IsNaN(b) THEN NaN
    ELSE IF ~IsFinite(a) /\ ~IsFinite(b) THEN (IF a = b THEN a ELSE NaN)
    ELSE IF ~IsFinite(a) THEN a
    ELSE IF ~IsFinite(b) THEN b
    ELSE Frac(a[1] * b[2] + b[1] * a[2], a[2] * b[2])

FNeg(a) == <<-a[1], a[2]>>
FSub(a, b) == FAdd(a, FNeg(b))

\* true division: x / 0 is nan or +-inf with a RuntimeWarning, never an exception
FDiv(a, b) ==
    IF IsNaN(a) \/ IsNaN(b) THEN NaN
    ELSE IF ~IsFinite(a) /\ ~IsFinite(b) THEN NaN
    ELSE IF ~IsFinite(b) THEN Float(0)
    ELSE Frac(a[1] * b[2], a[2] * b[1])

\* a <= b on non-NaN values
FLe(a, b) ==
    IF ~IsFinite(a) THEN a[1] = -1 \/ a = b
    ELSE IF ~IsFinite(b) THEN b[1] = 1
    ELSE a[1] * b[2] <= b[1] * a[2]

\* floor of a finite value
FFloor(a) == a[1] \div a[2]

SeqMax(s) == CHOOSE x \in {s[i] : i \in DOMAIN s} : \A i \in DOMAIN s : s[i] <= x
SeqMin(s) == CHOOSE x \in {s[i] : i \in DOMAIN s} : \A i \in DOMAIN s : x <= s[i]

(* ------------------------------ normlize ------------------------------- *)

normlize_wrong_denominator(data, lower, upper) ==
    IF data = <<>> THEN Raise("ValueError")
    ELSE LET xmax == SeqMax(data)
             xmin == SeqMin(data)
         IN  Ok([i \in DOMAIN data |->
                    FAdd(FDiv(Float((upper - lower) * (data[i] - xmin)),
                              Float(xmax)),
                         Float(lower))])

normlize_scalar_division(data, lower, upper) ==
    IF data = <<>> THEN Raise("ValueError")
    ELSE LET xmax == SeqMax(data)
             xmin == SeqMin(data)
         IN  IF xmax = xmin THEN Raise("ZeroDivisionError")
             ELSE Ok([i \in DOMAIN data |->
                        FAdd(FDiv(Float((upper - lower) * (data[i] - xmin)),
                                  Float(xmax - xmin)),
                             Float(lower))])

normlize(data, lower, upper) ==
    IF data = <<>> THEN Raise("ValueError")
    ELSE LET xmax == SeqMax(data)
             xmin == SeqMin(data)
         IN  Ok([i \in DOMAIN data |->
                    FAdd(FDiv(Float((upper - lower) * (data[i] - xmin)),
                              Float(xmax - xmin)),
                         Float(lower))])

Call_normlize ==
    /\ pc = "idle"
    /\ \E data \in NumData, lower \in BoundVals, upper \in BoundVals :
          /\ op' = "normlize"
          /\ args' = [data |-> data, lower |-> lower, upper |-> upper]
          /\ ret' = normlize(data, lower, upper)
    /\ pc' = "returned"

(* --------------------------- pandas.Series ----------------------------- *)

\* a Series is a sequence of <<index label, value>> pairs in index order
Keys(s) == [i \in DOMAIN s |-> s[i][1]]
Values(s) == [i \in DOMAIN s |-> s[i][2]]

FirstPos(data, v) == CHOOSE i \in DOMAIN data :
                        data[i] = v /\ \A j \in 1..(i - 1) : data[j] # v
Count(data, v) == Cardinality({i \in DOMAIN data : data[i] = v})

\* Series.value_counts(): one entry per distinct value, most frequent first
value_counts(data) ==
    LET distinct == {data[i] : i \in DOMAIN data}
        firsts == SelectSeq([i \in DOMAIN data |-> i],
                            LAMBDA i : FirstPos(data, data[i]) = i)
        entries == [k \in DOMAIN firsts |->
                       <<data[firsts[k]], Count(data, data[firsts[k]])>>]
    IN  SortSeq(entries, LAMBDA a, b : a[2] > b[2])

\* Series.sort_index(): ascending index labels
sort_index(s) == SortSeq(s, LAMBDA a, b : a[1] < b[1])

\* Series.sum() / Series.max() of a float Series skip NaN entries
RECURSIVE FSumRange(_, _, _)
FSumRange(s, i, j) ==
    IF i > j THEN Float(0)
    ELSE IF i = j THEN (IF IsNaN(s[i]) THEN Float(0) ELSE s[i])
    ELSE LET m == (i + j) \div 2
         IN  FAdd(FSumRange(s, i, m), FSumRange(s, m + 1, j))

FSum(s) == FSumRange(s, 1, Len(s))

FMax(s) ==
    LET live == {s[i] : i \in {j \in DOMAIN s : ~IsNaN(s[j])}}
    IN  IF live = {} THEN NaN
        ELSE CHOOSE x \in live : \A y \in live : FLe(y, x)

(* -------------------------- distribution_fre --------------------------- *)

distribution_fre_unsorted(data) ==
    IF data = None THEN Ok(None)
    ELSE LET data_count == value_counts(data.val)
             total == SumSeq(Values(data_count))
         IN  Ok(Series([i \in DOMAIN data_count |->
                 <<data_count[i][1],
                   FDiv(Float(data_count[i][2]), Float(total))>>]))

distribution_fre_scalar_total(data) ==
    IF data = None THEN Ok(None)
    ELSE IF data.val = <<>> THEN Raise("ZeroDivisionError")
    ELSE LET data_count == sort_index(value_counts(data.val))
             total == SumSeq(Values(data_count))
         IN  Ok(Series([i \in DOMAIN data_count |->
                 <<data_count[i][1],
                   FDiv(Float(data_count[i][2]), Float(total))>>]))

distribution_fre(data) ==
    IF data = None THEN Ok(None)
    ELSE LET data_count == sort_index(value_counts(data.val))
             total == SumSeq(Values(data_count))
         IN  Ok(Series([i \in DOMAIN data_count |->
                 <<data_count[i][1],
                   FDiv(Float(data_count[i][2]), Float(total))>>]))

PyData == {None} \cup {List(d) : d \in NumData}

Call_distribution_fre ==
    /\ pc = "idle"
    /\ \E data \in PyData :
          /\ op' = "distribution_fre"
          /\ args' = [data |-> data]
          /\ ret' = distribution_fre(data)
    /\ pc' = "returned"

(* ---------------------------- numpy.histogram -------------------------- *)

Half == Frac(1, 2)

BinIndex_open_last(x, first_edge, width, bins) ==
    FFloor(FDiv(FMul(FSub(Float(x), first_edge), Float(bins)), width))

\* the bin (counted from 0) of x; the last bin includes its right edge
BinIndex(x, first_edge, width, bins) ==
    LET f == FFloor(FDiv(FMul(FSub(Float(x), first_edge), Float(bins)), width))
    IN  IF f = bins THEN bins - 1 ELSE f

\* numpy.histogram(a, bins, density=True) for an integer bin count
np_histogram(a, bins) ==
    LET lo == IF a = <<>> THEN Float(0) ELSE Float(SeqMin(a))
        hi == IF a = <<>> THEN Float(1) ELSE Float(SeqMax(a))
        first_edge == IF lo = hi THEN FSub(lo, Half) ELSE lo
        last_edge == IF lo = hi THEN FAdd(hi, Half) ELSE hi
        width == FSub(last_edge, first_edge)
        edges == Array([k \in 1..(bins + 1) |->
                     FAdd(first_edge, FDiv(FMul(Float(k - 1), width), Float(bins)))])
        idx == Array([i \in DOMAIN a |-> BinIndex(a[i], first_edge, width, bins)])
        n == Array([k \in 1..bins |-> Cardinality({i \in DOMAIN a : idx[i] = k - 1})])
        total == SumSeq(n)
        db == [k \in 1..bins |-> FSub(edges[k + 1], edges[k])]
    IN  [hist |-> Array([k \in 1..bins |->
                      FDiv(FDiv(Float(n[k]), db[k]), Float(total))]),
         bin_edges |-> edges]

(* -------------------------- distribution_pdf --------------------------- *)

DefaultBins == 200

distribution_pdf(data, bins) ==
    IF data = None THEN Ok(None)
    ELSE LET b == IF bins = None THEN DefaultBins ELSE bins.val
             h == np_histogram(data.val, b)
             xdata == [k \in 1..b |->
                          FDiv(FAdd(h.bin_edges[k], h.bin_edges[k + 1]), Float(2))]
         IN  Ok(Series(Array([k \in 1..b |-> <<xdata[k], h.hist[k]>>])))

\* the arguments the callers pass: every collection with every explicit bin
\* count, and the shorter collections and the documented scenarios with the
\* default bin count
HistArgs == (PyData \X {PyInt(b) : b \in 1..MaxBins})
                \cup (({None} \cup {List(d) : d \in SeqsUpTo(DataVals, 2) \cup ExampleData})
                         \X {None})

Call_distribution_pdf ==
    /\ pc = "idle"
    /\ \E a \in HistArgs :
          /\ op' = "distribution_pdf"
          /\ args' = [data |-> a[1], bins |-> a[2]]
          /\ ret' = distribution_pdf(a[1], a[2])
    /\ pc' = "returned"

(* -------------------------- distribution_cdf --------------------------- *)

SliceTo_exclusive(s, ind) == SelectSeq(s, LAMBDA e : FLe(e[1], ind) /\ e[1] # ind)

\* pdf[:ind]: label slice of a Series with an increasing index, ind included
SliceTo(s, ind) == SelectSeq(s, LAMBDA e : FLe(e[1], ind))

distribution_cdf(data, bins) ==
    LET pdf == distribution_pdf(data, bins).value
    IN  IF pdf = None THEN Raise("AttributeError")
        ELSE LET cdf == Array([k \in DOMAIN pdf.val |->
                            FSum(Values(SliceTo(pdf.val, pdf.val[k][1])))])
                 top == FMax(cdf)
             IN  Ok(Series([k \in DOMAIN pdf.val |->
                               <<pdf.val[k][1], FDiv(cdf[k], top)>>]))

Call_distribution_cdf ==
    /\ pc = "idle"
    /\ \E a \in HistArgs :
          /\ op' = "distribution_cdf"
          /\ args' = [data |-> a[1], bins |-> a[2]]
          /\ ret' = distribution_cdf(a[1], a[2])
    /\ pc' = "returned"

(* ------------------------- hex2rgb and rgb2hex ------------------------- *)

\* strings are sequences of one-character strings
HexDigits == <<"0", "1", "2", "3", "4", "5", "6", "7",
               "8", "9", "A", "B", "C", "D", "E", "F">>
LowerDigits == <<"0", "1", "2", "3", "4", "5", "6", "7",
                 "8", "9", "a", "b", "c", "d", "e", "f">>

\* hex(n)[2:].upper() for n >= 0
RECURSIVE HexUpper(_)
HexUpper(n) ==
    IF n < 16 THEN <<HexDigits[n + 1]>>
    ELSE HexUpper(n \div 16) \o <<HexDigits[(n % 16) + 1]>>

IsHexChar(c) == \E d \in 1..16 : c = HexDigits[d] \/ c = LowerDigits[d]
DigitValue(c) == (CHOOSE d \in 1..16 : c = HexDigits[d] \/ c = LowerDigits[d]) - 1

\* int('0x' + s, base=16) for a string of hexadecimal digits
RECURSIVE ParseHex(_)
ParseHex(s) ==
    IF s = <<>> THEN 0
    ELSE 16 * ParseHex(SubSeq(s, 1, Len(s) - 1)) + DigitValue(s[Len(s)])

hex2rgb(hexcolor) ==
    LET stripped == IF \E i \in DOMAIN hexcolor : hexcolor[i] = "#"
                    THEN Tail(hexcolor) ELSE hexcolor
    IN  IF stripped = <<>> \/ \E i \in DOMAIN stripped : ~IsHexChar(stripped[i])
        THEN Raise("ValueError")
        ELSE LET v == ParseHex(stripped)
             IN  Ok(<<(v \div 65536) % 256, (v \div 256) % 256, v % 256>>)

RECURSIVE rgb2hex_from(_, _)
rgb2hex_from(hexcolor, rgb) ==
    IF rgb = <<>> THEN hexcolor
    ELSE LET h == HexUpper(Head(rgb))
             hex_each == IF Len(h) < 2 THEN h \o <<"0">> ELSE h
         IN  rgb2hex_from(hexcolor \o hex_each, Tail(rgb))

rgb2hex(rgb) == rgb2hex_from(<<"#">>, rgb)

\* colour components the callers pass
RgbVals == {0, 5, 10, 16, 25, 88, 111, 255}
RgbInputs == [1..3 -> RgbVals]
HexInputs == {rgb2hex(rgb) : rgb \in RgbInputs}
                 \cup {<<"6", "F", "1", "9", "5", "8">>, <<"#", "6", "f", "1", "9", "5", "8">>,
                       <<"#">>, <<"#", "G">>}

Call_rgb2hex ==
    /\ pc = "idle"
    /\ \E rgb \in RgbInputs :
          /\ op' = "rgb2hex"
          /\ args' = [rgb |-> rgb]
          /\ ret' = Ok(rgb2hex(rgb))
    /\ pc' = "returned"

Call_hex2rgb ==
    /\ pc = "idle"
    /\ \E hexcolor \in HexInputs :
          /\ op' = "hex2rgb"
          /\ args' = [hexcolor |-> hexcolor]
          /\ ret' = hex2rgb(hexcolor)
    /\ pc' = "returned"

(* ------------------------------ get_files ------------------------------ *)

Str(s) == [type |-> "str", val |-> s]
\* the name dir is not bound in get_files: it is Python's built-in function
dir == [type |-> "builtin_function_or_method", val |-> <<>>]

LastDot(p) == IF \E i \in DOMAIN p : p[i] = "."
              THEN CHOOSE i \in DOMAIN p :
                      p[i] = "." /\ \A j \in (i + 1)..Len(p) : p[j] # "."
              ELSE 0

\* os.path.splitext of a name without directory separators: <<root, ext>>
splitext(p) ==
    LET dotIndex == LastDot(p)
    IN  IF dotIndex > 0 /\ \E k \in 1..(dotIndex - 1) : p[k] # "."
        THEN <<SubSeq(p, 1, dotIndex - 1), SubSeq(p, dotIndex, Len(p))>>
        ELSE <<p, <<>>>>

\* os.path.join(a, b) for a relative b; a must be a string
os_path_join(a, b) ==
    IF a.type # "str" THEN Raise("TypeError")
    ELSE Ok(IF a.val # <<>> /\ a.val[Len(a.val)] # "/"
            THEN a.val \o <<"/">> \o b ELSE a.val \o b)

get_files(filedir, listing, filetype, return_type) ==
    LET matching == SelectSeq(listing, LAMBDA filename : splitext(filename)[2] = filetype)
        files == [i \in DOMAIN matching |-> splitext(matching[i])[1]]
    IN  IF return_type = "name" THEN Ok(files)
        ELSE IF return_type = "abspath"
        THEN LET joined == [i \in DOMAIN files |-> os_path_join(dir, files[i] \o filetype)]
             IN  IF \E i \in DOMAIN joined : joined[i].status = "raise"
                 THEN Raise("TypeError")
                 ELSE Ok([i \in DOMAIN joined |-> joined[i].value])
        ELSE Ok(files)

\* most entries of a listed directory
MaxFiles == 3
FileNames == {<<"a", ".", "c">>, <<"b", ".", "c">>, <<"a", ".", "t">>,
              <<".", "c">>, <<"a", ".", "b", ".", "c">>, <<"a">>}
FileTypes == {<<".", "c">>, <<".", "t">>}
Listings == {l \in SeqsUpTo(FileNames, MaxFiles) :
                \A i, j \in DOMAIN l : i # j => l[i] # l[j]}
FileDir == Str(<<"d">>)

Call_get_files ==
    /\ pc = "idle"
    /\ \E listing \in Listings, filetype \in FileTypes,
          return_type \in {"name", "abspath", "other"} :
          /\ op' = "get_files"
          /\ args' = [filedir |-> FileDir, listing |-> listing,
                      filetype |-> filetype, return_type |-> return_type]
          /\ ret' = get_files(FileDir, listing, filetype, return_type)
    /\ pc' = "returned"

(* ----------------------- random_dataframe_sample ----------------------- *)

\* int(x): truncation towards zero
IntOf(a) == IF a[1] >= 0 THEN a[1] \div a[2] ELSE -((-a[1]) \div a[2])

\* the row count asked for, as line 139-140 compute it
SampleCount(length, sample_num) ==
    IF sample_num[1] < sample_num[2]
    THEN IntOf(FMul(Float(length), sample_num))
    ELSE sample_num[1]

\* what random.sample(population, k) may return, as positions of the population
RandomSamples(n, k) ==
    IF k < 0 \/ k > n THEN {}
    ELSE {s \in [1..k -> 1..n] : \A i, j \in 1..k : i # j => s[i] # s[j]}

RECURSIVE Flatten(_)
Flatten(ss) == IF ss = <<>> THEN <<>> ELSE Head(ss) \o Flatten(Tail(ss))

\* df.ix[labels, :]: for each label asked for, every row carrying it, in frame
\* order; rows are named by their position in df
ix(index, labels) ==
    Flatten([i \in DOMAIN labels |->
                SelectSeq([p \in DOMAIN index |-> p],
                          LAMBDA p : index[p] = labels[i])])

\* index is df.index; rnd is the choice random.sample makes (unused when it is
\* not called)
random_dataframe_sample(index, sample_num, rnd) ==
    LET length == Len(index)
        k == SampleCount(length, sample_num)
    IN  IF k <= length
        THEN IF k < 0 THEN Raise("ValueError")
             ELSE Ok(ix(index, [i \in DOMAIN rnd |-> index[rnd[i]]]))
        ELSE Ok([p \in 1..length |-> p])

Labels == {"a", "b"}
SampleNums == {Float(i) : i \in (-1)..(MaxRows + 1)}
                  \cup {Frac(1, 4), Frac(1, 2), Frac(3, 4)}

Call_random_dataframe_sample ==
    /\ pc = "idle"
    /\ \E index \in SeqsUpTo(Labels, MaxRows), sample_num \in SampleNums :
          LET k == SampleCount(Len(index), sample_num)
              choices == IF RandomSamples(Len(index), k) = {} THEN {<<>>}
                         ELSE RandomSamples(Len(index), k)
          IN  \E rnd \in choices :
                 /\ op' = "random_dataframe_sample"
                 /\ args' = [index |-> index, sample_num |-> sample_num, rnd |-> rnd]
                 /\ ret' = random_dataframe_sample(index, sample_num, rnd)
    /\ pc' = "returned"

(* ------------------------------- caller -------------------------------- *)

Return ==
    /\ pc = "returned"
    /\ pc' = "idle"
    /\ op' = "none"
    /\ args' = None
    /\ ret' = None

Init ==
    /\ pc = "idle"
    /\ op = "none"
    /\ args = None
    /\ ret = None

Next ==
    \/ Call_normlize
    \/ Call_distribution_fre
    \/ Call_distribution_pdf
    \/ Call_distribution_cdf
    \/ Call_rgb2hex
    \/ Call_hex2rgb
    \/ Call_get_files
    \/ Call_random_dataframe_sample
    \/ Return

Spec == Init /\ [][Next]_vars

(* ------------------------------ properties ----------------------------- *)

Called(f) == pc = "returned" /\ op = f

\* C1: for non-empty data with max # min and lower < upper, normlize returns
\* a collection of the same length whose i-th element is
\* lower + (upper - lower) * (data[i] - min) / (max - min); every output lies
\* in [lower, upper], each minimum maps to lower and each maximum to upper.
NormlizeContract ==
    (Called("normlize") /\ args.data # <<>>
        /\ SeqMax(args.data) # SeqMin(args.data) /\ args.lower < args.upper)
    => LET data == args.data
           lo == SeqMin(data)
           hi == SeqMax(data)
       IN  /\ ret.status = "ok"
           /\ Len(ret.value) = Len(data)
           /\ \A i \in DOMAIN data :
                 /\ ret.value[i] = Frac(args.lower * (hi - lo)
                                          + (args.upper - args.lower) * (data[i] - lo),
                                        hi - lo)
                 /\ FLe(Float(args.lower), ret.value[i])
                 /\ FLe(ret.value[i], Float(args.upper))
                 /\ (data[i] = lo => ret.value[i] = Float(args.lower))
                 /\ (data[i] = hi => ret.value[i] = Float(args.upper))

NormlizeWitness ==
    /\ Called("normlize")
    /\ args = [data |-> <<10, 20, 30>>, lower |-> 0, upper |-> 1]
    /\ ret = Ok(<<Float(0), Frac(1, 2), Float(1)>>)

\* C2 (as stated): when all values of the non-empty input are equal, normlize
\* fails with a division-by-zero error instead of returning a result.
NormlizeDegenerateRaises ==
    (Called("normlize") /\ args.data # <<>> /\ SeqMax(args.data) = SeqMin(args.data))
    => ret.status = "raise"

\* C2 (amended): when all values of the non-empty input are equal, normlize
\* raises nothing and returns a collection of the same length whose every
\* element is NaN (0/0 in numpy arithmetic).
NormlizeDegenerateNaN ==
    (Called("normlize") /\ args.data # <<>> /\ SeqMax(args.data) = SeqMin(args.data))
    => /\ ret.status = "ok"
       /\ Len(ret.value) = Len(args.data)
       /\ \A i \in DOMAIN ret.value : IsNaN(ret.value[i])

NormlizeDegenerateWitness ==
    /\ Called("normlize")
    /\ args = [data |-> <<5, 5, 5>>, lower |-> 0, upper |-> 1]
    /\ ret = Ok(<<NaN, NaN, NaN>>)

\* C3: for a non-empty sequence, distribution_fre returns a mapping whose keys
\* are exactly the distinct input values, in ascending order, each key v
\* mapped to count(v) / len(data); the weights sum to 1.
FreContract ==
    (Called("distribution_fre") /\ args.data # None /\ args.data.val # <<>>)
    => LET data == args.data.val
           out == ret.value.val
       IN  /\ ret.status = "ok"
           /\ ret.value.type = "Series"
           /\ {out[i][1] : i \in DOMAIN out} = {data[i] : i \in DOMAIN data}
           /\ \A i \in DOMAIN out : \A j \in DOMAIN out : i < j => out[i][1] < out[j][1]
           /\ \A i \in DOMAIN out :
                 out[i][2] = Frac(Count(data, out[i][1]), Len(data))
           /\ FSum(Values(out)) = Float(1)

FreWitness ==
    /\ Called("distribution_fre")
    /\ args.data = List(<<1, 1, 2, 3, 3, 3>>)
    /\ ret = Ok(Series(<<<<1, Frac(2, 6)>>, <<2, Frac(1, 6)>>, <<3, Frac(3, 6)>>>>))

\* C4: distribution_fre returns an explicit empty result and no error both
\* when the input is absent (None) and when it is an empty sequence.
FreEmptyOrAbsent ==
    (Called("distribution_fre") /\ (args.data = None \/ args.data.val = <<>>))
    => /\ ret.status = "ok"
       /\ (args.data = None => ret.value = None)
       /\ (args.data # None => ret.value = Series(<<>>))

FreEmptyWitness ==
    /\ Called("distribution_fre")
    /\ args.data = List(<<>>)
    /\ ret = Ok(Series(<<>>))

\* the bin count in use: 200 when bins is not given
BinsUsed == IF args.bins = None THEN 200 ELSE args.bins.val

\* the result of distribution_pdf is the density histogram of the data over
\* BinsUsed equal-width bins of [first, last]: one entry per bin, keyed by the
\* bin midpoints in ascending order, each observation counted in exactly one
\* bin (the last bin closed on the right), value count / (len * width), and
\* the values times the width summing to 1
PdfOver(first, last) ==
    LET data == args.data.val
        b == BinsUsed
        width == FDiv(FSub(last, first), Float(b))
        edge(k) == FAdd(first, FMul(Float(k), width))
        InBin(x, k) == \/ FLe(edge(k - 1), Float(x)) /\ FLe(Float(x), edge(k))
                              /\ Float(x) # edge(k)
                       \/ k = b /\ Float(x) = last
        count == Array([k \in 1..b |->
                           Cardinality({i \in DOMAIN data : InBin(data[i], k)})])
        out == ret.value.val
    IN  /\ ret.status = "ok"
        /\ ret.value.type = "Series"
        /\ Len(out) = b
        /\ SumSeq(count) = Len(data)
        /\ \A k \in 1..b :
              /\ out[k][1] = FDiv(FAdd(edge(k - 1), edge(k)), Float(2))
              /\ out[k][2] = FDiv(Float(count[k]), FMul(Float(Len(data)), width))
              /\ k < b => out[k][1] # out[k + 1][1] /\ FLe(out[k][1], out[k + 1][1])
        /\ FSum(Array([k \in 1..b |-> FMul(out[k][2], width)])) = Float(1)

PdfCase == Called("distribution_pdf") /\ args.data # None /\ args.data.val # <<>>

\* C5 (as stated): for every non-empty numeric collection and positive bin
\* count b (200 when not given), distribution_pdf splits [min(data), max(data)]
\* into b equal-width bins and returns the density histogram over them.
PdfOverDataRange ==
    PdfCase => PdfOver(Float(SeqMin(args.data.val)), Float(SeqMax(args.data.val)))

\* C5 (amended): for every non-empty numeric collection and positive bin count
\* b (200 when not given), distribution_pdf returns the density histogram over
\* b equal-width bins of [min(data), max(data)] when max(data) # min(data), and
\* of [min(data) - 0.5, max(data) + 0.5] when all values are equal; the values
\* times the bin width sum to 1 in both cases.
PdfContract ==
    PdfCase =>
        LET lo == Float(SeqMin(args.data.val))
            hi == Float(SeqMax(args.data.val))
        IN  IF lo = hi THEN PdfOver(FSub(lo, Frac(1, 2)), FAdd(hi, Frac(1, 2)))
            ELSE PdfOver(lo, hi)

PdfWitness ==
    /\ Called("distribution_pdf")
    /\ args = [data |-> List(<<1, 2, 3, 4>>), bins |-> PyInt(2)]
    /\ ret = Ok(Series(<<<<Frac(7, 4), Frac(1, 3)>>, <<Frac(13, 4), Frac(1, 3)>>>>))

\* C6: for a non-empty numeric collection, distribution_cdf returns a sequence
\* over the same ascending keys as distribution_pdf whose value at key v is
\* the mass (density times bin width) of all bins with key <= v divided by the
\* total mass; it is non-decreasing and its last value is exactly 1.
CdfContract ==
    (Called("distribution_cdf") /\ args.data # None /\ args.data.val # <<>>)
    => LET pdf == distribution_pdf(args.data, args.bins).value.val
           b == BinsUsed
           lo == Float(SeqMin(args.data.val))
           hi == Float(SeqMax(args.data.val))
           width == IF lo = hi THEN Frac(1, b) ELSE FDiv(FSub(hi, lo), Float(b))
           mass == Array([k \in 1..b |-> FMul(pdf[k][2], width)])
           total == FSum(mass)
           upto(v) == FSum(Array([k \in 1..b |->
                               IF FLe(pdf[k][1], v) THEN mass[k] ELSE Float(0)]))
           out == ret.value.val
       IN  /\ ret.status = "ok"
           /\ ret.value.type = "Series"
           /\ Len(out) = b
           /\ \A k \in 1..b :
                 /\ out[k][1] = pdf[k][1]
                 /\ out[k][2] = FDiv(upto(out[k][1]), total)
                 /\ k < b => /\ out[k][1] # out[k + 1][1]
                             /\ FLe(out[k][1], out[k + 1][1])
                             /\ FLe(out[k][2], out[k + 1][2])
           /\ out[b][2] = Float(1)

CdfWitness ==
    /\ Called("distribution_cdf")
    /\ args = [data |-> List(<<1, 2, 3, 4>>), bins |-> PyInt(3)]
    /\ ret = Ok(Series(<<<<Frac(3, 2), Frac(1, 4)>>, <<Frac(5, 2), Frac(1, 2)>>,
                         <<Frac(7, 2), Float(1)>>>>))

\* C7: rgb2hex and hex2rgb are mutual inverses: for every triple rgb of
\* integers in 0..255, rgb2hex(rgb) is '#' followed by the two-digit uppercase
\* hexadecimal form of each component in order, and hex2rgb(rgb2hex(rgb)) = rgb.
RgbHexRoundTrip ==
    Called("rgb2hex")
    => LET rgb == args.rgb
           two(c) == <<HexDigits[(c \div 16) + 1], HexDigits[(c % 16) + 1]>>
       IN  /\ ret = Ok(<<"#">> \o two(rgb[1]) \o two(rgb[2]) \o two(rgb[3]))
           /\ hex2rgb(ret.value) = Ok(rgb)

\* C8: get_files with return_type 'abspath' returns, for exactly the entries
\* whose extension equals filetype and in listing order, filedir joined with
\* the entry's full name; with 'name' the same entries' names without
\* extension; it does not end in an error when an entry matches.
GetFilesContract ==
    (Called("get_files") /\ args.return_type \in {"name", "abspath"})
    => LET matching == SelectSeq(args.listing,
                           LAMBDA f : splitext(f)[2] = args.filetype)
       IN  /\ ret.status = "ok"
           /\ Len(ret.value) = Len(matching)
           /\ \A i \in DOMAIN matching :
                 ret.value[i] = IF args.return_type = "name"
                                THEN splitext(matching[i])[1]
                                ELSE args.filedir.val \o <<"/">> \o matching[i]

\* C9: random_dataframe_sample samples without replacement: with n = len(df)
\* and k = sample_num when sample_num >= 1 or floor(n * sample_num) when
\* 0 <= sample_num < 1, the result has exactly k pairwise distinct rows of df
\* when k <= n, for every random choice, and is df unchanged when k > n, also
\* when df's index labels are not unique.
SampleWithoutReplacement ==
    (Called("random_dataframe_sample") /\ args.sample_num[1] >= 0)
    => LET n == Len(args.index)
           k == IF args.sample_num[1] >= args.sample_num[2]
                THEN args.sample_num[1]
                ELSE (n * args.sample_num[1]) \div args.sample_num[2]
       IN  /\ ret.status = "ok"
           /\ k <= n => /\ Len(ret.value) = k
                        /\ \A i \in DOMAIN ret.value : ret.value[i] \in 1..n
                        /\ \A i, j \in DOMAIN ret.value :
                              i # j => ret.value[i] # ret.value[j]
           /\ k > n => ret.value = [p \in 1..n |-> p]

====
